---- MODULE Spec2Model ----
(***************************************************************************)
(* State-machine model of imap_eml_uploader.py: argument validation, the   *)
(* upload ledger (upload.log), ImapUploader.connect with its back-off      *)
(* loop, get_hierarchy_delimiter, collect_eml_files, create_imap_label,    *)
(* upload_email and the try/finally of main (Spec, SpecResume, and        *)
(* SpecLive for a run that is not killed and keeps running); and, on       *)
(* labels spelled out as character sequences, sanitize_label               *)
(* (SpecSanitize) and the label set, its sort and the label loop           *)
(* (SpecLabels).                                                           *)
(*                                                                         *)
(* Environment assumptions of the model:                                   *)
(*  - writes to upload.log and the directory walk do not fail;             *)
(*  - whether a local file can be read does not change within one call of  *)
(*    upload_email (it is chosen when the call starts);                    *)
(*  - a process kill (Crash) can strike at any point of a run; a ledger    *)
(*    line is written and flushed in one step (lines 269-270, 290-291,     *)
(*    299-300), so a kill leaves whole lines only.                         *)
(***************************************************************************)
EXTENDS Integers, Sequences, FiniteSets, TLC

VARIABLES
    pc,              \* position of the process in main / the called method
    run,             \* number of the current invocation of the script
    exitStatus,      \* process exit status; -1 while running or when killed
    tree,            \* the .eml files present under --directory (file ids)
    ledger,          \* content of upload.log: sequence of lines
    resume,          \* args.resume of the current invocation
    uploaded_files,  \* main: set of absolute paths read from [success] lines
    imap,            \* ImapUploader.imap: "None", or the handle held: "fresh" when
                     \* connect() returned with it and nothing was sent on it
                     \* since, "used" otherwise (its session may be live or dead);
                     \* "logged_out" / "logout_failed" once disconnect() has
                     \* called logout() on it
    caller,          \* who called connect(): its return address
    c_retries,       \* connect: retries
    c_retry_delay,   \* connect: retry_delay
    c_attempts,      \* history: connection attempts made by this connect() call
    c_slept,         \* history: delays slept by this connect() call
    delimiter,       \* main: delimiter (live between line 363 and line 383)
    files_to_upload, \* main: the work list, sequence of <<path, label>>
    sorted_labels,   \* main: sorted_labels
    label_idx,       \* main: position of the for loop of line 386
    current_file,    \* main: current_file
    retries,         \* create_imap_label / upload_email: retries
    retry_delay,     \* create_imap_label / upload_email: retry_delay
    readable,        \* whether open()/read() of the current item succeed
    pending_exit,    \* status the process ends with once finally has run
    attempts,        \* history: upload_email calls per file, over all runs
    n_append,        \* history: append requests issued by this upload_email call
    call_lines,      \* history: ledger lines written by this upload_email call
    run_lines,       \* history: ledger lines appended by this run
    start_ledger,    \* history: upload.log as this run found it (after line 346)
    run_calls,       \* history: upload_email calls made by this run
    last_result,     \* history: how the last upload_email call ended
    list_data,       \* history: data of the last OK listing of create_imap_label,
                     \* <<>> once another request was sent or the loop is left
    end_reason,      \* history: why this invocation is ending / has ended
    prev_end,        \* history: where the previous invocation stopped
    san_pc,          \* sanitize_label on its own: "off", "input", "once", "twice"
    label,           \* sanitize_label: the argument label (a character sequence)
    san_delimiter,   \* sanitize_label: the argument delimiter
    sanitized,       \* sanitize_label(label, delimiter)
    resanitized,     \* sanitize_label applied to its own result
    walk_pc,         \* collect / sort / label loop on character-level labels
    walk_dirs,       \* the directories os.walk visits, as relative paths
    walk_delimiter,  \* main: delimiter, as passed to collect_eml_files
    labels_set,      \* collect_eml_files: labels_set
    labels_sorted,   \* main: sorted_labels, as character-level labels
    label_calls      \* history: the labels create_imap_label was called with

procVars == <<pc, exitStatus, pending_exit, end_reason>>
connVars == <<caller, c_retries, c_retry_delay, c_attempts, c_slept>>
mainVars == <<resume, uploaded_files, delimiter, files_to_upload,
              sorted_labels, label_idx, current_file>>
callVars == <<retries, retry_delay, readable, n_append, call_lines, last_result>>
histVars == <<attempts, run_lines, run_calls, start_ledger, prev_end>>
envVars == <<run, tree>>
sanVars == <<san_pc, label, san_delimiter, sanitized, resanitized>>
walkVars == <<walk_pc, walk_dirs, walk_delimiter, labels_set, labels_sorted,
              label_calls>>
pureVars == <<sanVars, walkVars>>
progVars == <<procVars, connVars, mainVars, callVars, histVars, envVars,
              ledger, imap, list_data>>

vars == <<progVars, pureVars>>

----------------------------------------------------------------------------
(* Bounds of the model *)

\* number of distinct .eml paths (and of directories) the source tree may hold
NFiles == 2
\* length of the upload.log a first invocation may find
MaxInitLedger == 1
\* number of invocations of the script in SpecResume
MaxRuns == 2

(* Program constants *)

\* max_retries of connect, create_imap_label and upload_email
max_retries == 15

Files == 1..NFiles

\* The hierarchy delimiters a server may report.
Delims == {"/", ".", "_"}

----------------------------------------------------------------------------
(* Paths and ledger lines *)

\* A path string: the file it names and whether it is spelled absolute.
AbsPathOf(f) == [abs |-> TRUE, file |-> f]
PathStrings == [abs : BOOLEAN, file : Files]

\* os.path.abspath: an absolute path is itself, a relative one is resolved.
abspath(p) == [abs |-> TRUE, file |-> p.file]

SuccessTag == "[success] "
FailTag == "[fail] "
Line(tag, p) == [tag |-> tag, path |-> p]
Lines == [tag : {SuccessTag, FailTag}, path : PathStrings]

RECURSIVE SeqsUpTo(_, _)
SeqsUpTo(S, n) ==
    IF n = 0 THEN {<<>>}
    ELSE LET shorter == SeqsUpTo(S, n - 1)
         IN shorter \cup {Append(s, x) : s \in {t \in shorter : Len(t) = n - 1}, x \in S}

\* Variant of LoadUploaded that tests for the '[fail] ' prefix at line 353.
LoadUploaded_FailPrefix(log) ==
    {abspath(log[i].path) : i \in {j \in 1..Len(log) : log[j].tag = FailTag}}

\* Variant of LoadUploaded that drops the prefix test of line 353: every
\* line of upload.log counts as uploaded.
LoadUploaded_AnyLine(log) ==
    {abspath(log[i].path) : i \in 1..Len(log)}

\* main, lines 349-357: the set built from the [success] lines of upload.log.
LoadUploaded(log) ==
    {abspath(log[i].path) : i \in {j \in 1..Len(log) : log[j].tag = SuccessTag}}

----------------------------------------------------------------------------
(* Retry policy *)

\* Variant of Connect_CanRetry with a strict comparison.
Connect_CanRetry_Strict(r) == r < max_retries

\* connect, lines 146 and 157: `if retries <= max_retries` after a failure.
Connect_CanRetry(r) == r <= max_retries

\* create_imap_label, lines 197 and 229.
Label_CanRetry(r) == r <= max_retries

\* Variant of Upload_CanRetry with a strict comparison.
Upload_CanRetry_Strict(r) == r < max_retries

\* upload_email, line 280.
Upload_CanRetry(r) == r <= max_retries

\* `retry_delay *= 2` (lines 149, 160, 200, 232, 283).
NextDelay(d) == d * 2

\* The while conditions of lines 127, 178, 216 and 247.
LoopCond(r) == r <= max_retries

----------------------------------------------------------------------------
(* Exit status *)

\* Variant of ExitCode in which the argument errors end the process the way
\* the sys.exit(1) calls do.
ExitCode_UsageIsOne(reason) ==
    CASE reason \in {"usage", "nodir", "connect_init", "reconnect",
                     "reconnect_in_upload", "uncaught"} -> 1
      [] reason \in {"normal", "empty"} -> 0

\* parser.error (lines 321, 331, 333) ends the process with argparse's usage
\* status 2; sys.exit(1) at lines 339, 152 and 163; an exception that leaves
\* main ends the interpreter with status 1; falling off main is 0.
ExitCode(reason) ==
    CASE reason = "usage" -> 2
      [] reason \in {"nodir", "connect_init", "reconnect", "reconnect_in_upload",
                     "uncaught"} -> 1
      [] reason \in {"normal", "empty"} -> 0

----------------------------------------------------------------------------
(* The source tree and collect_eml_files *)

\* Directory d of the walk holds the file d (when present); directory 1 is
\* base_dir. The label of a directory stands for its sanitized label string.
Dirs == 1..NFiles
LabelOf(f) == f
Depth(l) == l \div 2

\* The source trees of the model: the first k files of the walk exist.
Trees == {1..k : k \in 0..NFiles}

\* collect_eml_files, lines 110-114: the work list in walk order, without
\* the paths found in uploaded_files.
RECURSIVE WalkFiles(_, _, _)
WalkFiles(d, present, uploaded) ==
    IF d > NFiles THEN <<>>
    ELSE (IF d \in present /\ AbsPathOf(d) \notin uploaded
          THEN << <<AbsPathOf(d), LabelOf(d)>> >>
          ELSE <<>>) \o WalkFiles(d + 1, present, uploaded)

\* collect_eml_files, lines 97-108: one label per directory walked.
WalkLabels == {LabelOf(d) : d \in Dirs}

\* main, line 383: sorted() by depth of a set, whose iteration order is
\* arbitrary: any arrangement of the labels with non-decreasing depth.
SortedByDepth(labels) ==
    {s \in [1..Cardinality(labels) -> labels] :
        /\ \A i, j \in DOMAIN s : i < j => s[i] # s[j] /\ Depth(s[i]) <= Depth(s[j])}

----------------------------------------------------------------------------
(* Character-level labels: sanitize_label, lines 51-78 *)

\* A label is a sequence of characters. The characters of the model: ASCII
\* letters and a digit, the underscore, the dot, the slash, the hyphen, the
\* space, another ASCII character and a non-ASCII character.
AsciiLetters == {"a", "b", "c", "d", "A", "R", "C", "H", "I", "M", "P", "O", "T"}
Digits == {"7"}
NonAscii == {"U+00E9"}
Chars == {"a", "7", "_", ".", "/", " ", "!", "U+00E9"}

\* re.sub applied to one character at a time: the characters of `from`
\* become `to`.
Replace(s, from, to) == [i \in DOMAIN s |-> IF s[i] \in from THEN to ELSE s[i]]

\* Variant of AllowedChars without the filter of line 69: every character
\* is let through.
AllowedChars_Any(d) == Chars \cup AsciiLetters \cup Digits \cup {"-", d}

\* Lines 60-63: ASCII letters, digits, underscore, and the delimiter unless
\* it is the underscore.
AllowedChars(d) ==
    AsciiLetters \cup Digits \cup {"_"} \cup (IF d # "_" THEN {d} ELSE {})

\* Line 69: every character outside the allowed set becomes an underscore.
ReplaceDisallowed(s, d) ==
    [i \in DOMAIN s |-> IF s[i] \in AllowedChars(d) THEN s[i] ELSE "_"]

\* Line 71: re.sub(r'_+', '_', label).
RECURSIVE CollapseUnderscores(_)
CollapseUnderscores(s) ==
    IF Len(s) <= 1 THEN s
    ELSE IF s[1] = "_" /\ s[2] = "_" THEN CollapseUnderscores(Tail(s))
    ELSE <<s[1]>> \o CollapseUnderscores(Tail(s))

\* str.lstrip / str.rstrip with a one-character argument.
RECURSIVE LStrip(_, _)
LStrip(s, c) == IF s # <<>> /\ s[1] = c THEN LStrip(Tail(s), c) ELSE s

RECURSIVE RStrip(_, _)
RStrip(s, c) ==
    IF s # <<>> /\ s[Len(s)] = c THEN RStrip(SubSeq(s, 1, Len(s) - 1), c) ELSE s

\* str.endswith with a one-character argument.
EndsWith(s, c) == s # <<>> /\ s[Len(s)] = c

\* sanitize_label, lines 51-78, step by step.
sanitize_label(lbl, d) ==
    LET s1 == Replace(lbl, NonAscii, "_")                          \* line 53
        s2 == Replace(s1, {" "}, "_")                              \* line 55
        s3 == IF d # "." THEN Replace(s2, {"."}, "_") ELSE s2      \* lines 57-58
        s4 == ReplaceDisallowed(s3, d)                             \* lines 60-69
        s5 == CollapseUnderscores(s4)                              \* line 71
        s6 == RStrip(LStrip(s5, "_"), "_")                         \* line 73
    IN  IF EndsWith(s6, d) THEN RStrip(s6, d) ELSE s6              \* lines 75-77

----------------------------------------------------------------------------
(* Character-level labels: collect_eml_files (lines 94-108) and the sort of
   main (line 383) *)

\* The directory names of the model: one that sanitization keeps, one ending
\* with an underscore, one holding a dot.
DirNames == {<<"a">>, <<"b", "_">>, <<"c", ".", "d">>}

\* A directory below base_dir is the sequence of the names leading to it;
\* <<>> is base_dir itself. At most MaxDepth levels below base_dir.
MaxDepth == 2

RelPaths == SeqsUpTo(DirNames, MaxDepth)

\* os.walk visits base_dir and every directory on the way to a leaf.
Ancestors(leaves) ==
    {<<>>} \cup UNION {{SubSeq(p, 1, k) : k \in 0..Len(p)} : p \in leaves}

\* The source trees of the character-level model: one or two branches.
WalkTrees == {Ancestors({p, q}) : p, q \in RelPaths}

parent_label == <<"A", "R", "C", "H", "-", "I", "M", "P", "O", "R", "T">>
os_sep == "/"

\* os.path.relpath(root, base_dir) for a directory below base_dir: its names
\* joined by os.sep.
RECURSIVE relpath(_)
relpath(p) ==
    IF Len(p) = 1 THEN p[1] ELSE p[1] \o <<os_sep>> \o relpath(Tail(p))

\* Lines 99-105: the label string of a directory before sanitization.
RawLabel(p, d) ==
    IF p = <<>> THEN parent_label
    ELSE parent_label \o <<d>> \o Replace(relpath(p), {os_sep}, d)

\* Lines 97-108: labels_set after the walk.
CollectLabels(dirs, d) == {sanitize_label(RawLabel(p, d), d) : p \in dirs}

\* str.count with a one-character argument.
RECURSIVE Count(_, _)
Count(s, c) ==
    IF s = <<>> THEN 0 ELSE (IF s[1] = c THEN 1 ELSE 0) + Count(Tail(s), c)

\* Variant of Sorted without the sort: the labels in any order.
RECURSIVE Sorted_AnyOrder(_, _)
Sorted_AnyOrder(labels, d) ==
    IF labels = {} THEN {<<>>}
    ELSE UNION {{<<x>> \o s : s \in Sorted_AnyOrder(labels \ {x}, d)} : x \in labels}

\* main, line 383: sorted(labels_to_create, key=lambda x: x.count(delimiter)).
\* The iteration order of a set is arbitrary and the sort is stable, so the
\* result is any arrangement with non-decreasing delimiter count.
RECURSIVE Sorted(_, _)
Sorted(labels, d) ==
    IF labels = {} THEN {<<>>}
    ELSE LET least == {x \in labels :
                         \A y \in labels : Count(x, d) <= Count(y, d)}
         IN UNION {{<<x>> \o s : s \in Sorted(labels \ {x}, d)} : x \in least}

----------------------------------------------------------------------------
(* Initial state: the script is invoked; upload.log holds any content *)

RunLocalsInit ==
    /\ resume = FALSE
    /\ uploaded_files = {}
    /\ imap = "None"
    /\ caller = "none"
    /\ c_retries = 0
    /\ c_retry_delay = 1
    /\ c_attempts = 0
    /\ c_slept = <<>>
    /\ delimiter = "/"
    /\ files_to_upload = <<>>
    /\ sorted_labels = <<>>
    /\ label_idx = 1
    /\ current_file = 1
    /\ retries = 0
    /\ retry_delay = 1
    /\ readable = TRUE
    /\ pending_exit = 0
    /\ n_append = 0
    /\ call_lines = <<>>
    /\ run_lines = <<>>
    /\ run_calls = 0
    /\ last_result = "none"
    /\ list_data = <<>>
    /\ end_reason = "none"

\* The script is about to be invoked.
MainInit ==
    /\ pc = "start"
    /\ run = 1
    /\ exitStatus = -1
    /\ tree \in Trees
    /\ ledger \in SeqsUpTo(Lines, MaxInitLedger)
    /\ start_ledger = ledger
    /\ attempts = [f \in Files |-> 0]
    /\ prev_end = "none"
    /\ RunLocalsInit

\* The character-level variables when they are not in use.
SanitizeIdle ==
    /\ san_pc = "off"
    /\ label = <<>>
    /\ san_delimiter = "/"
    /\ sanitized = <<>>
    /\ resanitized = <<>>

WalkIdle ==
    /\ walk_pc = "off"
    /\ walk_dirs = {}
    /\ walk_delimiter = "/"
    /\ labels_set = {}
    /\ labels_sorted = <<>>
    /\ label_calls = <<>>

Init == MainInit /\ SanitizeIdle /\ WalkIdle

----------------------------------------------------------------------------
(* Process end *)

\* The process ends now with the status of `reason` (parser.error, or
\* sys.exit / return outside the try block of main).
EndProcess(reason) ==
    /\ pc' = "done"
    /\ end_reason' = reason
    /\ exitStatus' = ExitCode(reason)
    /\ UNCHANGED pending_exit

\* Variant of EnterFinally without the finally clause: the process ends at
\* once.
EnterFinally_NoFinally(reason) ==
    /\ pc' = "done"
    /\ end_reason' = reason
    /\ exitStatus' = ExitCode(reason)
    /\ UNCHANGED pending_exit

\* SystemExit or return inside the try block of main (lines 361-393): the
\* finally clause of line 394 runs before the process ends.
EnterFinally(reason) ==
    /\ pc' = "finally"
    /\ end_reason' = reason
    /\ pending_exit' = ExitCode(reason)
    /\ UNCHANGED exitStatus

----------------------------------------------------------------------------
(* main, lines 316-359: arguments, source directory, ledger *)

\* Lines 319-333: the mode-dependent validation of the arguments.
ConfigOK(provider, email, server, port, username) ==
    IF provider = "gmail" THEN email
    ELSE server /\ port /\ username

Main_ConfigError ==
    /\ pc = "start"
    /\ \E provider \in {"gmail", "custom"}, email, server, port, username \in BOOLEAN :
          ~ConfigOK(provider, email, server, port, username)
    /\ EndProcess("usage")
    /\ UNCHANGED <<connVars, mainVars, callVars, histVars, envVars, pureVars, ledger, imap, list_data>>

\* Lines 337-339: the source directory does not exist.
Main_DirMissing ==
    /\ pc = "start"
    /\ \E provider \in {"gmail", "custom"}, email, server, port, username \in BOOLEAN :
          ConfigOK(provider, email, server, port, username)
    /\ EndProcess("nodir")
    /\ UNCHANGED <<connVars, mainVars, callVars, histVars, envVars, pureVars, ledger, imap, list_data>>

\* connect() is entered from `from`: lines 124-126.
CallConnect(from) ==
    /\ pc' = "connect"
    /\ caller' = from
    /\ c_retries' = 0
    /\ c_retry_delay' = 1
    /\ c_attempts' = 0
    /\ c_slept' = <<>>

\* Lines 341-359 with args.resume = r: upload.log is removed (fresh run) or
\* read (resume); then ImapUploader(args) calls connect().
Main_Start(r) ==
    /\ pc = "start"
    /\ \E provider \in {"gmail", "custom"}, email, server, port, username \in BOOLEAN :
          ConfigOK(provider, email, server, port, username)
    /\ resume' = r
    /\ ledger' = IF r THEN ledger ELSE <<>>
    /\ uploaded_files' = IF r THEN LoadUploaded(ledger) ELSE {}
    /\ start_ledger' = ledger'
    /\ CallConnect("init")
    /\ UNCHANGED <<exitStatus, pending_exit, end_reason, delimiter, files_to_upload,
                   sorted_labels, label_idx, current_file, callVars, attempts,
                   run_lines, run_calls, prev_end, envVars, pureVars, imap, list_data>>

Main_StartFresh == Main_Start(FALSE)
Main_StartResume == Main_Start(TRUE)

----------------------------------------------------------------------------
(* ImapUploader.connect, lines 123-163 *)

\* Variant of ReturnPc without the break of line 140: after a successful
\* login the while loop of connect() goes round again.
ReturnPc_NoBreak(from) == "connect"

\* Where connect() returns to.
ReturnPc(from) == IF from = "init" THEN "delimiter" ELSE from

\* Lines 129-140: IMAP4_SSL and login succeed; break.
Connect_OK ==
    /\ pc = "connect"
    /\ LoopCond(c_retries)
    /\ imap' = "fresh"
    /\ pc' = ReturnPc(caller)
    /\ caller' = "none"
    /\ c_retries' = 0
    /\ c_retry_delay' = 1
    /\ c_attempts' = 0
    /\ c_slept' = <<>>
    /\ UNCHANGED <<exitStatus, pending_exit, end_reason, mainVars, callVars,
                   histVars, envVars, pureVars, ledger, list_data>>

\* One failed attempt, lines 141-152 (and the identical 153-163): count it,
\* then sleep and double the delay, or sys.exit(1). `opened` tells whether
\* IMAP4_SSL had returned, so that self.imap holds the new handle.
ConnectFailure(opened) ==
    /\ pc = "connect"
    /\ LoopCond(c_retries)
    /\ imap' = IF opened THEN "used" ELSE imap
    /\ c_attempts' = c_attempts + 1
    /\ c_retries' = c_retries + 1
    /\ UNCHANGED caller
    /\ IF Connect_CanRetry(c_retries + 1)
       THEN /\ c_slept' = Append(c_slept, c_retry_delay)
            /\ c_retry_delay' = NextDelay(c_retry_delay)
            /\ UNCHANGED procVars
       ELSE /\ UNCHANGED <<c_slept, c_retry_delay>>
            /\ IF caller = "init"
               THEN EndProcess("connect_init")
               ELSE EnterFinally(IF caller = "upload_try"
                                 THEN "reconnect_in_upload" ELSE "reconnect")
    /\ UNCHANGED <<mainVars, callVars, histVars, envVars, pureVars, ledger, list_data>>

\* A socket, TLS or protocol error while opening the connection or during
\* login (line 141).
Connect_NetworkError == \E opened \in BOOLEAN : ConnectFailure(opened)

\* The server rejects the credentials: login raises imaplib.IMAP4.error,
\* which line 141 catches like any connection error.
Connect_AuthError == ConnectFailure(TRUE)

\* Any other exception, lines 153-163.
Connect_UnexpectedError == \E opened \in BOOLEAN : ConnectFailure(opened)

----------------------------------------------------------------------------
(* get_hierarchy_delimiter, lines 33-49 *)

\* Line 35 answers OK and a line matches: its delimiter is returned.
Delimiter_Found ==
    /\ pc = "delimiter"
    /\ \E d \in Delims : delimiter' = d
    /\ pc' = "scan"
    /\ imap' = "used"
    /\ UNCHANGED <<exitStatus, pending_exit, end_reason, connVars, resume,
                   uploaded_files, files_to_upload, sorted_labels, label_idx,
                   current_file, callVars, histVars, envVars, pureVars, ledger, list_data>>

\* Line 44: the answer is not OK or no line matches; line 49: the listing
\* raised a connection error. Both return '/'.
Delimiter_Default ==
    /\ pc = "delimiter"
    /\ delimiter' = "/"
    /\ pc' = "scan"
    /\ imap' = "used"
    /\ UNCHANGED <<exitStatus, pending_exit, end_reason, connVars, resume,
                   uploaded_files, files_to_upload, sorted_labels, label_idx,
                   current_file, callVars, histVars, envVars, pureVars, ledger, list_data>>

\* Line 35 answers OK with data that line 39 cannot search ([None] when the
\* server sent no LIST line, a tuple for a name sent as a literal) or with a
\* delimiter that line 41 cannot decode: TypeError / UnicodeDecodeError,
\* which line 45 does not name. main has no except clause: finally runs and
\* the exception ends the process.
Delimiter_Uncaught ==
    /\ pc = "delimiter"
    /\ EnterFinally("uncaught")
    /\ imap' = "used"
    /\ UNCHANGED <<connVars, mainVars, callVars, histVars, envVars, pureVars,
                   ledger, list_data>>

----------------------------------------------------------------------------
(* main, lines 366-387: scan, early return, sort *)

\* create_imap_label / upload_email are entered: their lines 174-176, 244-246.
ResetRetry ==
    /\ retries' = 0
    /\ retry_delay' = 1

\* Lines 367-377: nothing to upload, return (through finally).
Main_CollectEmpty ==
    /\ pc = "scan"
    /\ WalkFiles(1, tree, uploaded_files) = <<>>
    /\ files_to_upload' = <<>>
    /\ EnterFinally("empty")
    /\ UNCHANGED <<connVars, resume, uploaded_files, delimiter, sorted_labels,
                   label_idx, current_file, callVars, histVars, envVars, pureVars, ledger, imap, list_data>>

\* Lines 367-387: the work list, the labels in sorted order, first label.
Main_Collect ==
    /\ pc = "scan"
    /\ WalkFiles(1, tree, uploaded_files) # <<>>
    /\ files_to_upload' = WalkFiles(1, tree, uploaded_files)
    /\ sorted_labels' \in SortedByDepth(WalkLabels)
    /\ label_idx' = 1
    /\ delimiter' = "/"      \* dead after line 383
    /\ pc' = "label_check"
    /\ ResetRetry
    /\ UNCHANGED <<exitStatus, pending_exit, end_reason, connVars, resume,
                   uploaded_files, current_file, readable, n_append, call_lines,
                   last_result, histVars, envVars, pureVars, ledger, imap, list_data>>

----------------------------------------------------------------------------
(* ImapUploader.create_imap_label, lines 172-241 *)

\* Variant of LabelReturn that leaves the for loop of line 386 after the
\* first call.
LabelReturn_Early ==
    /\ pc' = "upload_loop"
    /\ label_idx' = 1
    /\ sorted_labels' = <<>>
    /\ retries' = 0
    /\ retry_delay' = 1

\* create_imap_label returns: the for loop of line 386 takes the next label,
\* or is over and line 389 is reached.
LabelReturn ==
    /\ IF label_idx < Len(sorted_labels)
       THEN /\ pc' = "label_check"
            /\ label_idx' = label_idx + 1
            /\ UNCHANGED sorted_labels
       ELSE /\ pc' = "upload_loop"
            /\ label_idx' = 1            \* the loop variables are dead
            /\ sorted_labels' = <<>>     \* after line 387
    /\ ResetRetry

\* Lines 212-214: go on to the create loop.
GotoCreate ==
    /\ pc' = "label_create"
    /\ ResetRetry
    /\ UNCHANGED <<label_idx, sorted_labels>>

\* What imaplib's list() returns as data with status OK: the matching LIST
\* lines, or [None] when there is none.
ListData == {<<"None">>, <<"line">>}

\* Lines 180-187: the listing answers OK.
LabelCheck_OK ==
    /\ pc = "label_check"
    /\ LoopCond(retries)
    /\ \E data \in ListData :
          /\ list_data' = data
          /\ IF Len(data) > 0 THEN LabelReturn ELSE GotoCreate
    /\ imap' = "used"
    /\ UNCHANGED <<exitStatus, pending_exit, end_reason, connVars, resume,
                   uploaded_files, delimiter, files_to_upload,
                   current_file, readable, n_append, call_lines, last_result,
                   histVars, envVars, pureVars, ledger>>

\* Lines 188-191 (status not OK) and 206-210 (another exception): create.
LabelCheck_Failed ==
    /\ pc = "label_check"
    /\ LoopCond(retries)
    /\ GotoCreate
    /\ imap' = "used"
    /\ list_data' = <<>>
    /\ UNCHANGED <<exitStatus, pending_exit, end_reason, connVars, resume,
                   uploaded_files, delimiter, files_to_upload,
                   current_file, readable, n_append, call_lines, last_result,
                   histVars, envVars, pureVars, ledger>>

\* Lines 192-205: a connection error; sleep, double, reconnect, or go on to
\* the create loop when the retries are used up.
LabelCheck_ConnError ==
    /\ pc = "label_check"
    /\ LoopCond(retries)
    /\ IF Label_CanRetry(retries + 1)
       THEN /\ retries' = retries + 1
            /\ retry_delay' = NextDelay(retry_delay)
            /\ CallConnect("label_check")
            /\ UNCHANGED <<label_idx, sorted_labels>>
       ELSE /\ GotoCreate
            /\ UNCHANGED connVars
    /\ imap' = "used"
    /\ list_data' = <<>>
    /\ UNCHANGED <<exitStatus, pending_exit, end_reason, resume,
                   uploaded_files, delimiter, files_to_upload,
                   current_file, readable, n_append, call_lines, last_result,
                   histVars, envVars, pureVars, ledger>>

\* Lines 218-223 (create answers, OK or not) and 238-241 (another exception).
LabelCreate_Answered ==
    /\ pc = "label_create"
    /\ LoopCond(retries)
    /\ LabelReturn
    /\ imap' = "used"
    /\ list_data' = <<>>
    /\ UNCHANGED <<exitStatus, pending_exit, end_reason, connVars, resume,
                   uploaded_files, delimiter, files_to_upload,
                   current_file, readable, n_append, call_lines, last_result,
                   histVars, envVars, pureVars, ledger>>

\* Lines 224-237: a connection error; sleep, double, reconnect, or give up.
LabelCreate_ConnError ==
    /\ pc = "label_create"
    /\ LoopCond(retries)
    /\ IF Label_CanRetry(retries + 1)
       THEN /\ retries' = retries + 1
            /\ retry_delay' = NextDelay(retry_delay)
            /\ CallConnect("label_create")
            /\ UNCHANGED <<label_idx, sorted_labels>>
       ELSE /\ LabelReturn
            /\ UNCHANGED connVars
    /\ imap' = "used"
    /\ list_data' = <<>>
    /\ UNCHANGED <<exitStatus, pending_exit, end_reason, resume,
                   uploaded_files, delimiter, files_to_upload,
                   current_file, readable, n_append, call_lines, last_result,
                   histVars, envVars, pureVars, ledger>>

----------------------------------------------------------------------------
(* main, lines 389-393, and ImapUploader.upload_email, lines 243-301 *)

\* Variant of ItemPath that always names the first work item.
ItemPath_First == files_to_upload[1][1]

ItemPath == files_to_upload[current_file][1]

\* Line 391-392: the loop calls upload_email for the next work item.
Main_NextItem ==
    /\ pc = "upload_loop"
    /\ current_file <= Len(files_to_upload)
    /\ pc' = "upload_try"
    /\ ResetRetry
    /\ \E r \in BOOLEAN : readable' = r
    /\ n_append' = 0
    /\ call_lines' = <<>>
    /\ last_result' = "none"
    /\ attempts' = [attempts EXCEPT ![ItemPath.file] = @ + 1]
    /\ run_calls' = run_calls + 1
    /\ list_data' = <<>>
    /\ UNCHANGED <<exitStatus, pending_exit, end_reason, connVars, mainVars,
                   run_lines, start_ledger, prev_end, envVars, pureVars, ledger, imap>>

\* Lines 391-393: the work list is exhausted; main returns through finally.
Main_LoopDone ==
    /\ pc = "upload_loop"
    /\ current_file > Len(files_to_upload)
    /\ EnterFinally("normal")
    /\ UNCHANGED <<connVars, mainVars, callVars, histVars, envVars, pureVars, ledger, imap, list_data>>

\* Variant of WriteAndReturn that writes the '[success] ' prefix whatever
\* the outcome of the call.
WriteAndReturn_AlwaysSuccess(tag, result) ==
    /\ ledger' = Append(ledger, Line(SuccessTag, ItemPath))
    /\ call_lines' = Append(call_lines, Line(SuccessTag, ItemPath))
    /\ run_lines' = Append(run_lines, Line(SuccessTag, ItemPath))
    /\ last_result' = result
    /\ current_file' = current_file + 1
    /\ pc' = "upload_loop"
    /\ retries' = 0
    /\ retry_delay' = 1
    /\ UNCHANGED <<caller, c_retries, c_retry_delay, c_attempts, c_slept>>

\* log_file.write + log_file.flush, then break: upload_email returns and
\* line 393 counts the item.
WriteAndReturn(tag, result) ==
    /\ ledger' = Append(ledger, Line(tag, ItemPath))
    /\ call_lines' = Append(call_lines, Line(tag, ItemPath))
    /\ run_lines' = Append(run_lines, Line(tag, ItemPath))
    /\ last_result' = result
    /\ current_file' = current_file + 1
    /\ pc' = "upload_loop"
    /\ ResetRetry
    /\ UNCHANGED <<caller, c_retries, c_retry_delay, c_attempts, c_slept>>

\* The except clause of lines 275-292: count the failure; sleep, double and
\* reconnect, or write the [fail] line when the retries are used up.
UploadTransient ==
    IF Upload_CanRetry(retries + 1)
    THEN /\ retries' = retries + 1
         /\ retry_delay' = NextDelay(retry_delay)
         /\ CallConnect("upload_try")
         /\ UNCHANGED <<ledger, call_lines, run_lines, last_result, current_file>>
    ELSE WriteAndReturn(FailTag, "exhausted")

\* Lines 262-271: append answers OK.
Upload_AppendOK ==
    /\ pc = "upload_try"
    /\ LoopCond(retries)
    /\ readable
    /\ n_append' = n_append + 1
    /\ WriteAndReturn(SuccessTag, "ok")
    /\ imap' = "used"
    /\ UNCHANGED <<exitStatus, pending_exit, end_reason, resume, uploaded_files,
                   delimiter, files_to_upload, sorted_labels, label_idx, readable,
                   attempts, run_calls, start_ledger, prev_end, envVars, pureVars, list_data>>

\* Lines 272-273 and 294-301: append answers with another status; the
\* exception raised for it is logged as [fail] without a retry.
Upload_AppendNotOK ==
    /\ pc = "upload_try"
    /\ LoopCond(retries)
    /\ readable
    /\ n_append' = n_append + 1
    /\ WriteAndReturn(FailTag, "not_ok")
    /\ imap' = "used"
    /\ UNCHANGED <<exitStatus, pending_exit, end_reason, resume, uploaded_files,
                   delimiter, files_to_upload, sorted_labels, label_idx, readable,
                   attempts, run_calls, start_ledger, prev_end, envVars, pureVars, list_data>>

\* Lines 294-301: an exception that line 275 does not name.
Upload_OtherError ==
    /\ pc = "upload_try"
    /\ LoopCond(retries)
    /\ readable
    /\ \E sent \in BOOLEAN :
          /\ n_append' = n_append + (IF sent THEN 1 ELSE 0)
          /\ imap' = IF sent THEN "used" ELSE imap
    /\ WriteAndReturn(FailTag, "error")
    /\ UNCHANGED <<exitStatus, pending_exit, end_reason, resume, uploaded_files,
                   delimiter, files_to_upload, sorted_labels, label_idx, readable,
                   attempts, run_calls, start_ledger, prev_end, envVars, pureVars, list_data>>

\* Lines 275-292: append raises a connection or protocol error.
Upload_AppendConnError ==
    /\ pc = "upload_try"
    /\ LoopCond(retries)
    /\ readable
    /\ n_append' = n_append + 1
    /\ UploadTransient
    /\ imap' = "used"
    /\ UNCHANGED <<exitStatus, pending_exit, end_reason, resume, uploaded_files,
                   delimiter, files_to_upload, sorted_labels, label_idx, readable,
                   attempts, run_calls, start_ledger, prev_end, envVars, pureVars, list_data>>

\* Lines 249-250 raise OSError (the file cannot be opened or read), which
\* the except clause of line 275 names: handled like a connection error.
Upload_ReadError ==
    /\ pc = "upload_try"
    /\ LoopCond(retries)
    /\ ~readable
    /\ UploadTransient
    /\ UNCHANGED <<exitStatus, pending_exit, end_reason, resume, uploaded_files,
                   delimiter, files_to_upload, sorted_labels, label_idx, readable,
                   n_append, attempts, run_calls, start_ledger, prev_end, envVars, pureVars,
                   imap, list_data>>

----------------------------------------------------------------------------
(* main, lines 394-396, and ImapUploader.disconnect, lines 165-170 *)

\* finally: disconnect() tries logout() on the handle held (an exception of
\* logout is caught, line 169); then the process ends with the pending status.
Main_Finally ==
    /\ pc = "finally"
    /\ pc' = "done"
    /\ exitStatus' = pending_exit
    /\ \E logout_ok \in BOOLEAN :
          imap' = IF imap = "None" THEN imap
                  ELSE IF logout_ok THEN "logged_out" ELSE "logout_failed"
    /\ UNCHANGED <<pending_exit, end_reason, connVars, mainVars, callVars,
                   histVars, envVars, pureVars, ledger, list_data>>

----------------------------------------------------------------------------
(* The environment: a kill of the process, the next invocation *)

InUploadCall == pc = "upload_try" \/ (pc = "connect" /\ caller = "upload_try")

\* The memory of a process that is gone: every variable of main and of the
\* ImapUploader object is back at its initial value.
ForgetLocals ==
    /\ pending_exit' = 0
    /\ resume' = FALSE
    /\ uploaded_files' = {}
    /\ imap' = "None"
    /\ caller' = "none"
    /\ c_retries' = 0
    /\ c_retry_delay' = 1
    /\ c_attempts' = 0
    /\ c_slept' = <<>>
    /\ delimiter' = "/"
    /\ files_to_upload' = <<>>
    /\ sorted_labels' = <<>>
    /\ label_idx' = 1
    /\ current_file' = 1
    /\ ResetRetry
    /\ readable' = TRUE
    /\ n_append' = 0
    /\ call_lines' = <<>>
    /\ last_result' = "none"
    /\ list_data' = <<>>

\* The process is killed (or the machine stops); upload.log keeps the lines
\* flushed so far.
Crash ==
    /\ pc \notin {"start", "done", "crashed"}
    /\ pc' = "crashed"
    /\ end_reason' = IF InUploadCall \/ end_reason = "reconnect_in_upload"
                     THEN "killed_in_upload" ELSE "killed"
    /\ ForgetLocals
    /\ UNCHANGED <<exitStatus, histVars, envVars, pureVars, ledger>>

\* The script is invoked again on the same tree and the same upload.log.
Restart ==
    /\ pc \in {"done", "crashed"}
    /\ run < MaxRuns
    /\ run' = run + 1
    /\ prev_end' = IF end_reason \in {"killed_in_upload", "reconnect_in_upload"}
                   THEN "in_upload" ELSE "between_items"
    /\ pc' = "start"
    /\ exitStatus' = -1
    /\ start_ledger' = ledger
    /\ end_reason' = "none"
    /\ ForgetLocals
    /\ run_lines' = <<>>
    /\ run_calls' = 0
    /\ UNCHANGED <<tree, ledger, attempts, pureVars>>

----------------------------------------------------------------------------
(* Specifications *)

\* The steps of the script itself.
RunStep ==
    \/ Main_ConfigError
    \/ Main_DirMissing
    \/ Main_StartFresh
    \/ Main_StartResume
    \/ Connect_OK
    \/ Connect_NetworkError
    \/ Connect_AuthError
    \/ Connect_UnexpectedError
    \/ Delimiter_Found
    \/ Delimiter_Default
    \/ Delimiter_Uncaught
    \/ Main_CollectEmpty
    \/ Main_Collect
    \/ LabelCheck_OK
    \/ LabelCheck_Failed
    \/ LabelCheck_ConnError
    \/ LabelCreate_Answered
    \/ LabelCreate_ConnError
    \/ Main_NextItem
    \/ Main_LoopDone
    \/ Upload_AppendOK
    \/ Upload_AppendNotOK
    \/ Upload_OtherError
    \/ Upload_AppendConnError
    \/ Upload_ReadError
    \/ Main_Finally

Next == RunStep \/ Crash

\* One invocation of the script, from any upload.log and any source tree.
Spec == Init /\ [][Next]_vars

\* Successive invocations on one tree, holding every file, and one
\* upload.log, the first of them finding no upload.log.
InitResume == Init /\ ledger = <<>> /\ tree = Files

NextResume == Next \/ Restart

SpecResume == InitResume /\ [][NextResume]_vars

\* One invocation that is not killed and keeps running: every call into the
\* library returns or raises and every sleep ends, so a step of the script
\* that is possible is eventually taken. It finds no upload.log.
InitLive == Init /\ ledger = <<>>

SpecLive == InitLive /\ [][RunStep]_vars /\ WF_vars(RunStep)

----------------------------------------------------------------------------
(* sanitize_label on its own, for every label and delimiter of the model *)

\* length of the labels sanitize_label is applied to
MaxLabelLen == 4

\* The script itself stays at its start, with no tree and no upload.log.
MainIdle == MainInit /\ tree = {} /\ ledger = <<>>

InitSanitize ==
    /\ MainIdle
    /\ WalkIdle
    /\ san_pc = "input"
    /\ label \in SeqsUpTo(Chars, MaxLabelLen)
    /\ san_delimiter \in Delims
    /\ sanitized = <<>>
    /\ resanitized = <<>>

\* sanitize_label(label, delimiter) is called.
Sanitize_Call ==
    /\ san_pc = "input"
    /\ sanitized' = sanitize_label(label, san_delimiter)
    /\ san_pc' = "once"
    /\ UNCHANGED <<label, san_delimiter, resanitized, walkVars, progVars>>

\* sanitize_label is called with its own result.
Sanitize_Again ==
    /\ san_pc = "once"
    /\ resanitized' = sanitize_label(sanitized, san_delimiter)
    /\ san_pc' = "twice"
    /\ UNCHANGED <<label, san_delimiter, sanitized, walkVars, progVars>>

NextSanitize == Sanitize_Call \/ Sanitize_Again

SpecSanitize == InitSanitize /\ [][NextSanitize]_vars

----------------------------------------------------------------------------
(* collect_eml_files, the sort and the label loop of main on character-level
   labels: lines 94-108 and 382-387. create_imap_label is one step here; its
   requests and retries are the label actions of Spec. *)

InitLabels ==
    /\ MainIdle
    /\ SanitizeIdle
    /\ walk_pc = "walk"
    /\ walk_dirs \in WalkTrees
    /\ walk_delimiter \in Delims
    /\ labels_set = {}
    /\ labels_sorted = <<>>
    /\ label_calls = <<>>

\* Lines 367-372: collect_eml_files returns labels_set.
Walk_Collect ==
    /\ walk_pc = "walk"
    /\ labels_set' = CollectLabels(walk_dirs, walk_delimiter)
    /\ walk_pc' = "collected"
    /\ UNCHANGED <<walk_dirs, walk_delimiter, labels_sorted, label_calls,
                   sanVars, progVars>>

\* Lines 375-377: the walk found no file to upload; main returns.
Walk_NoFiles ==
    /\ walk_pc = "collected"
    /\ walk_pc' = "end"
    /\ UNCHANGED <<walk_dirs, walk_delimiter, labels_set, labels_sorted,
                   label_calls, sanVars, progVars>>

\* Line 383.
Walk_Sort ==
    /\ walk_pc = "collected"
    /\ labels_sorted' \in Sorted(labels_set, walk_delimiter)
    /\ walk_pc' = "loop"
    /\ UNCHANGED <<walk_dirs, walk_delimiter, labels_set, label_calls,
                   sanVars, progVars>>

\* Lines 386-387: the next call of create_imap_label.
Walk_CreateLabel ==
    /\ walk_pc = "loop"
    /\ Len(label_calls) < Len(labels_sorted)
    /\ label_calls' = Append(label_calls, labels_sorted[Len(label_calls) + 1])
    /\ UNCHANGED <<walk_pc, walk_dirs, walk_delimiter, labels_set,
                   labels_sorted, sanVars, progVars>>

\* Line 386: the for loop is over.
Walk_LoopEnd ==
    /\ walk_pc = "loop"
    /\ Len(label_calls) = Len(labels_sorted)
    /\ walk_pc' = "end"
    /\ UNCHANGED <<walk_dirs, walk_delimiter, labels_set, labels_sorted,
                   label_calls, sanVars, progVars>>

NextLabels ==
    \/ Walk_Collect
    \/ Walk_NoFiles
    \/ Walk_Sort
    \/ Walk_CreateLabel
    \/ Walk_LoopEnd

SpecLabels == InitLabels /\ [][NextLabels]_vars

----------------------------------------------------------------------------
(* Properties *)

\* The [success] lines of `log` that name the file of path p.
SuccessIn(log, p) ==
    \E j \in 1..Len(log) : log[j].tag = SuccessTag /\ abspath(log[j].path) = p

\* The number of [fail] lines of `log` that name path p.
FailCount(log, p) ==
    Cardinality({j \in 1..Len(log) : log[j].tag = FailTag /\ log[j].path = p})

\* The lines of `log` that name path p.
LinesFor(log, p) == {j \in 1..Len(log) : log[j].path = p}

\* The path of the item the last upload_email call was made for.
LastItemPath == files_to_upload[current_file - 1][1]

\* C1: a run started with --resume never has in its work list, and never
\* writes a ledger line (so never uploads) for, a path that upload.log held a
\* [success] line for when the run started.
C1_ResumeSkipsSuccessPaths ==
    resume =>
        /\ \A i \in 1..Len(files_to_upload) :
              ~SuccessIn(start_ledger, files_to_upload[i][1])
        /\ \A j \in 1..Len(run_lines) : ~SuccessIn(start_ledger, run_lines[j].path)
        /\ InUploadCall => ~SuccessIn(start_ledger, ItemPath)

\* C1 witness: a resumed run whose tree holds a file that upload.log marks
\* [success] has uploaded another file and has reached the end of its work list.
C1_Witness ==
    /\ resume
    /\ pc = "upload_loop"
    /\ current_file > Len(files_to_upload)
    /\ run_lines # <<>>
    /\ \E f \in tree : SuccessIn(start_ledger, AbsPathOf(f))

\* C2: every upload_email call writes exactly one ledger line, for the path
\* of its item, before the next item begins; its retries write nothing.
C2_OneLinePerUploadCall ==
    /\ InUploadCall => call_lines = <<>> /\ Len(run_lines) = run_calls - 1
    /\ pc \in {"upload_loop", "finally", "done"} =>
          /\ Len(run_lines) = run_calls
          /\ \A i \in 1..run_calls : run_lines[i].path = files_to_upload[i][1]

\* C3: once the initial connect has succeeded and the work list is not
\* empty, a run that ends has a ledger line for every item of the work list.
C3_EveryItemAttempted ==
    (/\ pc = "done"
     /\ end_reason \notin {"usage", "nodir", "connect_init"}
     /\ files_to_upload # <<>>)
    => \A i \in 1..Len(files_to_upload) :
          LinesFor(run_lines, files_to_upload[i][1]) # {}

\* C4: when a reconnect made from the retry handler of create_imap_label or
\* upload_email has used up its connection attempts, the process goes on
\* (the failure is the caller's to handle): it is not ending.
C4_ReconnectFailureNotFatal ==
    (caller \in {"label_check", "label_create", "upload_try"}
        /\ c_retries > max_retries)
    => pc \notin {"finally", "done"}

\* C5: when the appends of an item fail k <= 15 times with a connection
\* error (every reconnect succeeding) and the next append succeeds, the call
\* has written exactly one line, the [success] line of the path, as the last
\* line of upload.log; and the call never gives up after k <= 15 failures.
C5_RetriesThenSuccess ==
    /\ (InUploadCall /\ readable) =>
          /\ n_append = retries
          /\ n_append <= max_retries
          /\ call_lines = <<>>
    /\ (pc = "upload_loop" /\ last_result = "ok") =>
          /\ n_append - 1 <= max_retries
          /\ call_lines = <<Line(SuccessTag, LastItemPath)>>
          /\ ledger[Len(ledger)] = Line(SuccessTag, LastItemPath)
          /\ Len(ledger) = Len(start_ledger) + run_calls
    /\ (pc = "upload_loop" /\ last_result = "exhausted" /\ readable) =>
          n_append = max_retries + 1

\* C5 witness: an upload that succeeded at its 16th append, after 15 failures.
C5_Witness ==
    /\ pc = "upload_loop"
    /\ last_result = "ok"
    /\ n_append = max_retries + 1
    /\ call_lines = <<Line(SuccessTag, LastItemPath)>>

\* C6: when every append of an item fails with a connection error, the item
\* is logged [fail] once after 15 append attempts, no 16th attempt is made,
\* and the process does not end within the call.
C6_FailAfter15Attempts ==
    /\ (InUploadCall /\ readable) => n_append < max_retries
    /\ (pc = "upload_loop" /\ last_result = "exhausted" /\ readable) =>
          /\ n_append = max_retries
          /\ call_lines = <<Line(FailTag, LastItemPath)>>
    /\ end_reason # "reconnect_in_upload"

\* The second invocation, with --resume, after an invocation that stopped
\* between two items (or before the first, or after the last).
C7_ResumedRun ==
    /\ run = 2
    /\ resume
    /\ prev_end = "between_items"

C7_ResumedRunEnded ==
    /\ C7_ResumedRun
    /\ pc = "done"
    /\ end_reason \in {"normal", "empty"}

\* C7 as stated: over both runs every path is attempted exactly once, so
\* there are M attempts in all, whatever the first run logged.
C7_ExactlyOneAttemptPerPath ==
    C7_ResumedRunEnded => \A f \in tree : attempts[f] = 1

\* C7 as amended: over both runs a path is attempted once, and once more if
\* the first run logged it [fail]; never more, and exactly so when the
\* resumed run ends normally (M + F attempts in all, F the number of [fail]
\* lines of the first run).
C7_OneAttemptPlusFailed ==
    C7_ResumedRun =>
        \A f \in tree :
            /\ attempts[f] <= 1 + FailCount(start_ledger, AbsPathOf(f))
            /\ SuccessIn(start_ledger, AbsPathOf(f)) => attempts[f] = 1
            /\ C7_ResumedRunEnded =>
                  attempts[f] = 1 + FailCount(start_ledger, AbsPathOf(f))

\* C7 witness: the first run was stopped after one of two items, logged
\* [fail]; the resumed run has ended normally, having attempted both.
C7_Witness ==
    /\ C7_ResumedRunEnded
    /\ Len(start_ledger) = 1
    /\ \E f \in tree : attempts[f] = 2
    /\ \E f \in tree : attempts[f] = 1

\* The delays connect() has slept are 1, 2, 4, ...: the i-th is 2^(i-1).
C8_Delays ==
    \A i \in 1..Len(c_slept) : c_slept[i] = 2 ^ (i - 1)

\* C8 as stated: at most 15 connection attempts in one call of connect(),
\* none after the 15th has failed; the delay before retry i is 2^(i-1).
C8_AtMost15Attempts ==
    /\ c_attempts <= max_retries
    /\ pc = "connect" => c_retries < max_retries
    /\ C8_Delays

\* C8 as amended: at most 16 connection attempts in one call of connect()
\* (one and max_retries = 15 retries); the delay before retry i is 2^(i-1),
\* i = 1..15; when the 16th attempt fails there is no further attempt: the
\* process is ending.
C8_AtMost16Attempts ==
    /\ c_attempts <= max_retries + 1
    /\ Len(c_slept) <= max_retries
    /\ C8_Delays
    /\ pc = "connect" =>
          /\ c_attempts = c_retries
          /\ c_attempts <= max_retries
          /\ Len(c_slept) = c_retries
          /\ c_retry_delay = 2 ^ c_retries
    /\ end_reason \in {"connect_init", "reconnect", "reconnect_in_upload"} =>
          /\ c_attempts = max_retries + 1
          /\ Len(c_slept) = max_retries
          /\ pc \in {"finally", "done"}

\* C8 witness: the 16th attempt of a connect() call has failed, after 15
\* sleeps, the last of 2^14.
C8_Witness ==
    /\ c_attempts = max_retries + 1
    /\ Len(c_slept) = max_retries
    /\ c_slept[max_retries] = 16384
    /\ pc = "done"

\* C9: a login the server rejects (invalid credentials) is fatal at once:
\* the step in which connect() sees it ends the process, with no retry.
C9_AuthFailureIsFatal ==
    [][Connect_AuthError => pc' \in {"finally", "done"}]_vars

\* C10 as stated: status 0 on normal completion (empty work list included),
\* status 1 on an argument error, a missing source directory and the
\* exhausted retries of the initial connect.
C10_ExitStatusZeroOrOne ==
    pc = "done" =>
        /\ end_reason \in {"normal", "empty"} => exitStatus = 0
        /\ end_reason \in {"usage", "nodir", "connect_init"} => exitStatus = 1

\* C10 as amended: status 0 on normal completion (empty work list
\* included), status 2 on an argument error, status 1 on a missing source
\* directory and on the exhausted retries of the initial connect.
C10_ExitStatus ==
    /\ pc = "done" =>
          /\ end_reason \in {"normal", "empty"} => exitStatus = 0
          /\ end_reason = "usage" => exitStatus = 2
          /\ end_reason \in {"nodir", "connect_init"} => exitStatus = 1
          /\ end_reason = "empty" => files_to_upload = <<>>
          /\ end_reason = "connect_init" => c_attempts = max_retries + 1
    /\ pc # "done" => exitStatus = -1

\* C10 witness: the process has ended on an argument error.
C10_Witness ==
    /\ pc = "done"
    /\ end_reason = "usage"
    /\ exitStatus = 2

\* The parent of label c: c up to its last delimiter.
IsParentOf(p, c, d) ==
    \E k \in DOMAIN c :
        /\ c[k] = d
        /\ p = SubSeq(c, 1, k - 1)
        /\ \A m \in (k + 1)..Len(c) : c[m] # d

\* C11: the create_imap_label calls of a run are made in non-decreasing
\* depth (number of delimiters in the label), and when the parent of a
\* label is in the label set, the call for the parent precedes the call for
\* the label.
C11_CallsInDepthOrder ==
    /\ \A i, j \in DOMAIN label_calls :
          i < j => Count(label_calls[i], walk_delimiter)
                      <= Count(label_calls[j], walk_delimiter)
    /\ \A j \in DOMAIN label_calls : \A p \in labels_set :
          IsParentOf(p, label_calls[j], walk_delimiter)
              => \E i \in 1..(j - 1) : label_calls[i] = p

\* C11 witness: the loop is over after calls for a root label, two labels
\* of equal depth and a child of one of them.
C11_Witness ==
    /\ walk_pc = "end"
    /\ walk_delimiter = "/"
    /\ \E i, j, k \in DOMAIN label_calls :
          /\ i < j /\ j < k
          /\ Count(label_calls[i], "/") = Count(label_calls[j], "/")
          /\ IsParentOf(label_calls[i], label_calls[k], "/")

\* C12: the label set collect_eml_files returns is prefix-closed: for every
\* label of the set and every delimiter in it, the label up to that
\* delimiter is in the set too.
C12_LabelSetPrefixClosed ==
    walk_pc \in {"collected", "loop", "end"} =>
        \A l \in labels_set : \A k \in DOMAIN l :
            l[k] = walk_delimiter => SubSeq(l, 1, k - 1) \in labels_set

\* C13: sanitize_label is idempotent: applied to its own result it returns
\* that result.
C13_SanitizeIdempotent ==
    san_pc = "twice" => resanitized = sanitized

\* C14: the result of sanitize_label does not start with an underscore, does
\* not end with an underscore and does not end with the delimiter.
C14_NoEdgeUnderscoreNoTrailingDelimiter ==
    (san_pc \in {"once", "twice"} /\ sanitized # <<>>) =>
        /\ sanitized[1] # "_"
        /\ sanitized[Len(sanitized)] # "_"
        /\ sanitized[Len(sanitized)] # san_delimiter

\* C15: every character of the result of sanitize_label is an ASCII letter,
\* a digit, an underscore or the delimiter, and no two underscores are
\* adjacent in it.
C15_AllowedCharsSingleUnderscores ==
    san_pc \in {"once", "twice"} =>
        /\ \A i \in DOMAIN sanitized :
              sanitized[i] \in AsciiLetters \cup Digits \cup {"_", san_delimiter}
        /\ \A i \in 1..(Len(sanitized) - 1) :
              ~(sanitized[i] = "_" /\ sanitized[i + 1] = "_")

\* C15 witness: a label holding a character outside the allowed set next to
\* a space has been sanitized to a label with one underscore in their place.
C15_Witness ==
    /\ san_pc = "once"
    /\ san_delimiter = "/"
    /\ label = <<"a", "!", " ", "7">>
    /\ sanitized = <<"a", "_", "7">>

\* C16: a provisioning failure for a label does not abort the run: a run
\* whose scan found work does not end before its upload phase has run.
C16_ProvisioningFailureNotFatal ==
    (pc \in {"finally", "done"} /\ files_to_upload # <<>>) => run_calls >= 1

\* C17: when the listing of create_imap_label shows the label present, no
\* create request is issued for it; when it shows the label absent (an OK
\* answer holding no matching folder), a create request is issued for it.
C17_CreateIffListedAbsent ==
    /\ list_data = <<"line">> => pc # "label_create"
    /\ list_data = <<"None">> => pc = "label_create"

\* The scan of main (line 367) has been made by the running process.
Scanned ==
    \/ pc \in {"label_check", "label_create", "upload_loop", "upload_try"}
    \/ pc = "connect" /\ caller # "init"
    \/ pc \in {"finally", "done"}
          /\ end_reason \in {"normal", "reconnect", "reconnect_in_upload"}

\* C18: in a run started with --resume, every file of the tree that
\* upload.log held no [success] line for (only [fail] lines, or none) is in
\* the work list, and has been attempted when the run ends normally.
C18_OnlySuccessSuppresses ==
    (resume /\ Scanned) =>
        \A f \in tree :
            ~SuccessIn(start_ledger, AbsPathOf(f)) =>
                /\ \E i \in 1..Len(files_to_upload) :
                      files_to_upload[i][1] = AbsPathOf(f)
                /\ (pc = "done" /\ end_reason = "normal") =>
                      /\ attempts[f] >= 1
                      /\ LinesFor(run_lines, AbsPathOf(f)) # {}

\* C18 witness: a resumed run that found a [fail] line for a file of the
\* tree has ended normally after attempting that file again.
C18_Witness ==
    /\ resume
    /\ pc = "done"
    /\ end_reason = "normal"
    /\ \E f \in tree :
          /\ FailCount(start_ledger, AbsPathOf(f)) >= 1
          /\ ~SuccessIn(start_ledger, AbsPathOf(f))
          /\ LinesFor(run_lines, AbsPathOf(f)) # {}

\* C19: an unreadable local file is not retried: while upload_email handles
\* such an item it makes no retry (no back-off delay) and no reconnect.
C19_UnreadableNotRetried ==
    (InUploadCall /\ ~readable) =>
        /\ retries = 0
        /\ retry_delay = 1
        /\ pc # "connect"

\* C20: when connect() opens a new session during a reconnect, the session
\* held before is not a live one (connect() itself releases nothing, lines
\* 123-140, so the held session must be dead already).
C20_OneLiveSession ==
    [][((Connect_OK \/ ConnectFailure(TRUE)) /\ caller # "init")
          => imap # "fresh"]_vars

\* C21: get_hierarchy_delimiter never fails the run: whatever the listing
\* answers, the run goes on to the scan.
C21_DelimiterNeverFails ==
    [][(pc = "delimiter" /\ pc' # "crashed") => pc' = "scan"]_vars

\* C22: the ledger lines appended by a run are, one to one and in order, the
\* lines of a prefix of its work list, appended at the end of upload.log.
C22_LinesFollowWorkList ==
    pc # "crashed" =>
        /\ Len(run_lines) <= Len(files_to_upload)
        /\ \A i \in 1..Len(run_lines) : run_lines[i].path = files_to_upload[i][1]
        /\ ledger = start_ledger \o run_lines

\* C22 witness: a run has written the lines of two different work items.
C22_Witness ==
    /\ pc = "upload_loop"
    /\ Len(run_lines) = 2
    /\ run_lines[1].path # run_lines[2].path
    /\ run_lines[2].path = files_to_upload[2][1]

\* The process is in create_imap_label / in the upload loop of main.
LabelPhase ==
    \/ pc \in {"label_check", "label_create"}
    \/ pc = "connect" /\ caller \in {"label_check", "label_create"}

UploadPhase ==
    \/ pc \in {"upload_loop", "upload_try"}
    \/ pc = "connect" /\ caller = "upload_try"

\* C23: label provisioning is finished before any upload starts: no
\* upload_email call and no append request is made while labels are
\* provisioned, the upload loop is entered only by the return of the call
\* for the last label, and no listing or create follows it.
C23_LabelsBeforeUploads ==
    /\ [](LabelPhase => (run_calls = 0 /\ n_append = 0 /\ run_lines = <<>>))
    /\ [][(UploadPhase' /\ ~UploadPhase) =>
             (/\ pc \in {"label_check", "label_create"}
              /\ label_idx = Len(sorted_labels))]_vars
    /\ [][UploadPhase => ~LabelPhase']_vars

\* C23 witness: an append request has been issued after the label loop.
C23_Witness ==
    /\ pc = "upload_try"
    /\ n_append >= 1
    /\ sorted_labels = <<>>

\* C24: a [success] line is written only by an upload_email call whose
\* append request answered OK; a call that ended on an error, a non-OK
\* status or exhausted retries has written a [fail] line.
C24_SuccessOnlyAfterAppendOK ==
    /\ (call_lines # <<>> /\ call_lines[1].tag = SuccessTag) =>
          /\ last_result = "ok"
          /\ n_append >= 1
          /\ call_lines = <<Line(SuccessTag, LastItemPath)>>
    /\ last_result \in {"not_ok", "error", "exhausted"} =>
          call_lines = <<Line(FailTag, LastItemPath)>>

\* C24 witness: a call has written [success] after a failed append, a
\* reconnect and an append that answered OK.
C24_Witness ==
    /\ pc = "upload_loop"
    /\ last_result = "ok"
    /\ n_append >= 2
    /\ call_lines = <<Line(SuccessTag, LastItemPath)>>

\* C25: over successive runs on one upload.log and one tree, upload.log
\* never holds two [success] lines for the same absolute path.
C25_NoTwoSuccessLines ==
    \A i, j \in 1..Len(ledger) :
        (i < j /\ ledger[i].tag = SuccessTag /\ ledger[j].tag = SuccessTag)
            => abspath(ledger[i].path) # abspath(ledger[j].path)

\* C25 witness: a resumed run that found a [success] line of an earlier run
\* has added the [success] line of another file.
C25_Witness ==
    /\ run >= 2
    /\ resume
    /\ \E f, g \in tree :
          /\ f # g
          /\ SuccessIn(start_ledger, AbsPathOf(f))
          /\ SuccessIn(run_lines, AbsPathOf(g))

\* C26: every run terminates: it reaches its end (completed or exited)
\* whatever the failures.
C26_RunTerminates == <>(pc = "done")

\* C26 witness: a run has ended after the retry loop of upload_email ran to
\* its bound.
C26_Witness ==
    /\ pc = "done"
    /\ last_result = "exhausted"

\* C27: once the initial connect has succeeded, a run that ends (normal
\* completion, empty work list, exit of a failed reconnect, exception
\* leaving main) has attempted a logout on the handle held, not before its
\* end, and ends with the status of its end reason whether the logout
\* failed or not.
C27_LogoutBeforeEnd ==
    /\ (pc = "done" /\ end_reason \in {"normal", "empty", "reconnect",
                                       "reconnect_in_upload", "uncaught"}) =>
          /\ imap \in {"logged_out", "logout_failed"}
          /\ exitStatus = ExitCode(end_reason)
    /\ pc \notin {"done", "crashed"} => imap \notin {"logged_out", "logout_failed"}

\* C27 witness: a run ended by a failed reconnect in the label loop, whose
\* logout failed, has exit status 1.
C27_Witness ==
    /\ pc = "done"
    /\ end_reason = "reconnect"
    /\ imap = "logout_failed"
    /\ exitStatus = 1

====
